---- MODULE Spec2Model ----
(***************************************************************************)
(* MetroidvaniaGenerator (src/src/map-generator.js): the procedural map    *)
(* generator of Abyss Walker.  generate() runs five stages in sequence:    *)
(* generateRoomGraph, placeAbilityGates, generateRoomGeometries,           *)
(* populateWorld and buildTilemap.  The state is the generator object's    *)
(* fields, the locals of the running room-graph loop, the value returned   *)
(* by generate() and the state of the random source.                       *)
(*                                                                         *)
(* Math.random() is a stub: a multiplicative congruential generator whose  *)
(* seed Init chooses.  Every Math.random() call of the code advances it    *)
(* once, in the order in which the code makes the calls.  Seed 0 is the    *)
(* source that returns 0 for ever.                                         *)
(***************************************************************************)
EXTENDS Integers, Sequences, FiniteSets, TLC

VARIABLES
    phase,            \* where the generator is: "new", "graph", "gates", "geometry",
                      \* "populate", "tilemap" (inside generate()), "done" (returned),
                      \* "threw" (left by an error)
    calls,            \* number of generate() calls started on this generator
    rand,             \* the random source: residue of the value it returned last
    numRooms,         \* generateRoomGraph: const numRooms
    i,                \* generateRoomGraph: index of the for loop
    attempts,         \* generateRoomGraph: let attempts of the while loop
    rooms,            \* this.rooms
    connections,      \* this.connections
    abilityLocations, \* this.abilityLocations
    skipped,          \* history: indices of the running call that left the while loop unplaced
    attemptsMade,     \* history: iterations of the while loop in the running call
    world             \* the value returned by the last generate() call

vars == <<phase, calls, rand, numRooms, i, attempts, rooms, connections,
          abilityLocations, skipped, attemptsMade, world>>

----------------------------------------------------------------------------
(* Program constants *)

GridWidth == 60
GridHeight == 40
tileSize == 32
padding == 2
MaxAttempts == 50
MinRooms == 15
RoomSpan == 10
GateStart == 3

abilities == <<"double_jump", "wall_jump", "dash", "grappling">>

enemyTypes == <<"patrol", "flyer", "turret">>

\* null and undefined
NULL == "null"

(* Bounds of the model *)

\* the seeds of the random source are 0 .. NumSeeds - 1
NumSeeds == 16
\* generate() is called at most this many times on one generator
MaxCalls == 2

----------------------------------------------------------------------------
(* The random source *)

RandModulus == 223
RandMultiplier == 191

\* one Math.random() call: the residue x of the value x / RandModulus it returns
NextRand(x) == (RandMultiplier * x) % RandModulus

\* Math.floor(Math.random() * n) for the returned residue x
FloorScaled(x, n) == (x * n) \div RandModulus

\* Math.random() < tenths / 10 for the returned residue x
Below(x, tenths) == 10 * x < tenths * RandModulus

\* <<Math.cos(a), Math.sin(a)>> in millionths for a = (x / RandModulus) * Math.PI * 2,
\* at position x + 1
CosSin ==
  <<
    <<1000000, 0>>, <<999603, 28172>>, <<998413, 56322>>, <<996430, 84427>>,
    <<993656, 112464>>, <<990093, 140413>>, <<985744, 168250>>, <<980613, 195954>>,
    <<974704, 223502>>, <<968020, 250872>>, <<960568, 278044>>, <<952354, 304995>>,
    <<943384, 331703>>, <<933665, 358149>>, <<923204, 384310>>, <<912011, 410166>>,
    <<900094, 435696>>, <<887462, 460881>>, <<874126, 485699>>, <<860096, 510132>>,
    <<845383, 534160>>, <<829999, 557765>>, <<813956, 580926>>, <<797268, 603626>>,
    <<779946, 625847>>, <<762005, 647571>>, <<743459, 668782>>, <<724323, 689461>>,
    <<704612, 709593>>, <<684342, 729161>>, <<663528, 748151>>, <<642188, 766547>>,
    <<620338, 784335>>, <<597995, 801500>>, <<575178, 818028>>, <<551904, 833907>>,
    <<528192, 849125>>, <<504061, 863668>>, <<479530, 877525>>, <<454618, 890687>>,
    <<429345, 903140>>, <<403731, 914878>>, <<377797, 925888>>, <<351563, 936164>>,
    <<325050, 945697>>, <<298279, 954479>>, <<271271, 962503>>, <<244048, 969763>>,
    <<216631, 976254>>, <<189042, 981969>>, <<161303, 986905>>, <<133435, 991058>>,
    <<105462, 994423>>, <<77406, 997000>>, <<49288, 998785>>, <<21130, 999777>>,
    <<-7044, 999975>>, <<-35212, 999380>>, <<-63353, 997991>>, <<-91443, 995810>>,
    <<-119461, 992839>>, <<-147384, 989079>>, <<-175190, 984535>>, <<-202856, 979209>>,
    <<-230362, 973105>>, <<-257685, 966229>>, <<-284803, 958586>>, <<-311695, 950182>>,
    <<-338340, 941024>>, <<-364716, 931119>>, <<-390803, 920474>>, <<-416580, 909099>>,
    <<-442025, 897003>>, <<-467120, 884194>>, <<-491844, 870683>>, <<-516178, 856481>>,
    <<-540102, 841600>>, <<-563597, 826050>>, <<-586645, 809844>>, <<-609227, 792996>>,
    <<-631325, 775518>>, <<-652923, 757424>>, <<-674002, 738730>>, <<-694546, 719449>>,
    <<-714538, 699596>>, <<-733964, 679189>>, <<-752807, 658242>>, <<-771052, 636772>>,
    <<-788685, 614798>>, <<-805692, 592335>>, <<-822059, 569402>>, <<-837774, 546017>>,
    <<-852824, 522198>>, <<-867197, 497965>>, <<-880881, 473337>>, <<-893867, 448333>>,
    <<-906142, 422973>>, <<-917699, 397277>>, <<-928527, 371266>>, <<-938617, 344960>>,
    <<-947963, 318381>>, <<-956556, 291548>>, <<-964390, 264484>>, <<-971458, 237211>>,
    <<-977755, 209749>>, <<-983276, 182120>>, <<-988017, 154347>>, <<-991973, 126451>>,
    <<-995141, 98455>>, <<-997520, 70381>>, <<-999107, 42251>>, <<-999901, 14087>>,
    <<-999901, -14087>>, <<-999107, -42251>>, <<-997520, -70381>>, <<-995141, -98455>>,
    <<-991973, -126451>>, <<-988017, -154347>>, <<-983276, -182120>>, <<-977755, -209749>>,
    <<-971458, -237211>>, <<-964390, -264484>>, <<-956556, -291548>>, <<-947963, -318381>>,
    <<-938617, -344960>>, <<-928527, -371266>>, <<-917699, -397277>>, <<-906142, -422973>>,
    <<-893867, -448333>>, <<-880881, -473337>>, <<-867197, -497965>>, <<-852824, -522198>>,
    <<-837774, -546017>>, <<-822059, -569402>>, <<-805692, -592335>>, <<-788685, -614798>>,
    <<-771052, -636772>>, <<-752807, -658242>>, <<-733964, -679189>>, <<-714538, -699596>>,
    <<-694546, -719449>>, <<-674002, -738730>>, <<-652923, -757424>>, <<-631325, -775518>>,
    <<-609227, -792996>>, <<-586645, -809844>>, <<-563597, -826050>>, <<-540102, -841600>>,
    <<-516178, -856481>>, <<-491844, -870683>>, <<-467120, -884194>>, <<-442025, -897003>>,
    <<-416580, -909099>>, <<-390803, -920474>>, <<-364716, -931119>>, <<-338340, -941024>>,
    <<-311695, -950182>>, <<-284803, -958586>>, <<-257685, -966229>>, <<-230362, -973105>>,
    <<-202856, -979209>>, <<-175190, -984535>>, <<-147384, -989079>>, <<-119461, -992839>>,
    <<-91443, -995810>>, <<-63353, -997991>>, <<-35212, -999380>>, <<-7044, -999975>>,
    <<21130, -999777>>, <<49288, -998785>>, <<77406, -997000>>, <<105462, -994423>>,
    <<133435, -991058>>, <<161303, -986905>>, <<189042, -981969>>, <<216631, -976254>>,
    <<244048, -969763>>, <<271271, -962503>>, <<298279, -954479>>, <<325050, -945697>>,
    <<351563, -936164>>, <<377797, -925888>>, <<403731, -914878>>, <<429345, -903140>>,
    <<454618, -890687>>, <<479530, -877525>>, <<504061, -863668>>, <<528192, -849125>>,
    <<551904, -833907>>, <<575178, -818028>>, <<597995, -801500>>, <<620338, -784335>>,
    <<642188, -766547>>, <<663528, -748151>>, <<684342, -729161>>, <<704612, -709593>>,
    <<724323, -689461>>, <<743459, -668782>>, <<762005, -647571>>, <<779946, -625847>>,
    <<797268, -603626>>, <<813956, -580926>>, <<829999, -557765>>, <<845383, -534160>>,
    <<860096, -510132>>, <<874126, -485699>>, <<887462, -460881>>, <<900094, -435696>>,
    <<912011, -410166>>, <<923204, -384310>>, <<933665, -358149>>, <<943384, -331703>>,
    <<952354, -304995>>, <<960568, -278044>>, <<968020, -250872>>, <<974704, -223502>>,
    <<980613, -195954>>, <<985744, -168250>>, <<990093, -140413>>, <<993656, -112464>>,
    <<996430, -84427>>, <<998413, -56322>>, <<999603, -28172>>
  >>

\* Math.floor(base + c * distance) for an integer base and c in millionths
FloorOffset(base, c, distance) == base + ((c * distance) \div 1000000)

----------------------------------------------------------------------------
(* generateRoomGraph *)

Min(a, b) == IF a < b THEN a ELSE b

\* getRoomType with the save test before the ability test
getRoomTypeSaveFirst(index, total, x) ==
    IF index = total - 1 THEN [type |-> "boss", rand |-> x]
    ELSE IF index % 3 = 0 THEN [type |-> "save", rand |-> x]
    ELSE IF index % 4 = 0 THEN [type |-> "ability", rand |-> x]
    ELSE IF Below(NextRand(x), 2) THEN [type |-> "secret", rand |-> NextRand(x)]
    ELSE [type |-> "normal", rand |-> NextRand(x)]

\* getRoomType(index, total), called when the source last returned x: the type
\* and the source after the call
getRoomType(index, total, x) ==
    IF index = total - 1 THEN [type |-> "boss", rand |-> x]
    ELSE IF index % 4 = 0 THEN [type |-> "ability", rand |-> x]
    ELSE IF index % 3 = 0 THEN [type |-> "save", rand |-> x]
    ELSE IF Below(NextRand(x), 2) THEN [type |-> "secret", rand |-> NextRand(x)]
    ELSE [type |-> "normal", rand |-> NextRand(x)]

\* roomsOverlap with a margin one cell narrower than the padding
roomsOverlapNarrowMargin(room, rs) ==
    \E k \in 1..Len(rs) :
        LET other == rs[k] IN
        /\ room.x < other.x + other.width + (padding - 1)
        /\ room.x + room.width + (padding - 1) > other.x
        /\ room.y < other.y + other.height + (padding - 1)
        /\ room.y + room.height + (padding - 1) > other.y

\* roomsOverlap accepting every candidate
roomsOverlapNever(room, rs) == FALSE

\* roomsOverlap with the padding left out of the comparison
roomsOverlapNoPadding(room, rs) ==
    \E k \in 1..Len(rs) :
        LET other == rs[k] IN
        /\ room.x < other.x + other.width
        /\ room.x + room.width > other.x
        /\ room.y < other.y + other.height
        /\ room.y + room.height > other.y

roomsOverlap(room, rs) ==
    \E k \in 1..Len(rs) :
        LET other == rs[k] IN
        /\ room.x < other.x + other.width + padding
        /\ room.x + room.width + padding > other.x
        /\ room.y < other.y + other.height + padding
        /\ room.y + room.height + padding > other.y

\* the spawn room pushed with the type of an ordinary room
spawnRoomTypedNormal ==
    [id |-> 0, x |-> GridWidth \div 2, y |-> GridHeight \div 2,
     width |-> 8, height |-> 6, type |-> "normal",
     center |-> [x |-> 0, y |-> 0], connections |-> <<>>,
     requiredAbility |-> NULL, ability |-> NULL,
     tiles |-> <<>>, doorways |-> <<>>, enemies |-> <<>>, items |-> <<>>]

\* the room literal of the spawn room; tiles, doorways, enemies and items are
\* the fields the later stages add (empty stands for undefined)
spawnRoom ==
    [id |-> 0, x |-> GridWidth \div 2, y |-> GridHeight \div 2,
     width |-> 8, height |-> 6, type |-> "spawn",
     center |-> [x |-> 0, y |-> 0], connections |-> <<>>,
     requiredAbility |-> NULL, ability |-> NULL,
     tiles |-> <<>>, doorways |-> <<>>, enemies |-> <<>>, items |-> <<>>]

\* the newRoom literal with the list length as id
newRoomDrawIdByLength(index, total, rs, x) ==
    LET rParent == NextRand(x)
        rAngle == NextRand(rParent)
        rDistance == NextRand(rAngle)
        rWidth == NextRand(rDistance)
        rHeight == NextRand(rWidth)
        parent == FloorScaled(rParent, Len(rs))
        parentRoom == rs[parent + 1]
        distance == 6 + FloorScaled(rDistance, 4)
        typed == getRoomType(index, total, rHeight)
    IN  [parent |-> parent,
         rand |-> typed.rand,
         room |-> [id |-> Len(rs),
                   x |-> FloorOffset(parentRoom.x, CosSin[rAngle + 1][1], distance),
                   y |-> FloorOffset(parentRoom.y, CosSin[rAngle + 1][2], distance),
                   width |-> 6 + FloorScaled(rWidth, 6),
                   height |-> 4 + FloorScaled(rHeight, 4),
                   type |-> typed.type,
                   center |-> [x |-> 0, y |-> 0], connections |-> <<>>,
                   requiredAbility |-> NULL, ability |-> NULL,
                   tiles |-> <<>>, doorways |-> <<>>, enemies |-> <<>>,
                   items |-> <<>>]]

\* the newRoom literal of one attempt, drawn when the source last returned x:
\* the parent's list position (0-based), the room and the source afterwards
newRoomDraw(index, total, rs, x) ==
    LET rParent == NextRand(x)
        rAngle == NextRand(rParent)
        rDistance == NextRand(rAngle)
        rWidth == NextRand(rDistance)
        rHeight == NextRand(rWidth)
        parent == FloorScaled(rParent, Len(rs))
        parentRoom == rs[parent + 1]
        distance == 6 + FloorScaled(rDistance, 4)
        typed == getRoomType(index, total, rHeight)
    IN  [parent |-> parent,
         rand |-> typed.rand,
         room |-> [id |-> index,
                   x |-> FloorOffset(parentRoom.x, CosSin[rAngle + 1][1], distance),
                   y |-> FloorOffset(parentRoom.y, CosSin[rAngle + 1][2], distance),
                   width |-> 6 + FloorScaled(rWidth, 6),
                   height |-> 4 + FloorScaled(rHeight, 4),
                   type |-> typed.type,
                   center |-> [x |-> 0, y |-> 0], connections |-> <<>>,
                   requiredAbility |-> NULL, ability |-> NULL,
                   tiles |-> <<>>, doorways |-> <<>>, enemies |-> <<>>,
                   items |-> <<>>]]

\* newRoom.center of an accepted room
roomCenter(room) ==
    [x |-> room.x * tileSize + (room.width * tileSize) \div 2,
     y |-> room.y * tileSize + (room.height * tileSize) \div 2]

\* the Connection pushed with the new room on both ends
newConnectionSelfLoop(parentRoom, newRoom) ==
    [from |-> newRoom.id, to |-> newRoom.id, type |-> "normal"]

\* the Connection pushed from the new room to its parent
newConnectionReversed(parentRoom, newRoom) ==
    [from |-> newRoom.id, to |-> parentRoom.id, type |-> "normal"]

\* the Connection pushed for an accepted room
newConnection(parentRoom, newRoom) ==
    [from |-> parentRoom.id, to |-> newRoom.id, type |-> "normal"]

\* the for loop running one index too far
loopContinuesOffByOne(index, total) == index <= total

\* the condition of the for loop
loopContinues(index, total) == index < total

\* the while loop going on after an accepted candidate
whileContinuesAfterPlaced(placed, tried) == tried < MaxAttempts

\* the while loop allowing one attempt too many
whileContinuesOffByOne(placed, tried) == ~placed /\ tried <= MaxAttempts

\* the condition of the while loop
whileContinues(placed, tried) == ~placed /\ tried < MaxAttempts

----------------------------------------------------------------------------
(* placeAbilityGates *)

\* number of ability-type rooms among the first k rooms of rs
RECURSIVE abilityRank(_, _)
abilityRank(rs, k) ==
    IF k = 0 THEN 0
    ELSE abilityRank(rs, k - 1) + (IF rs[k].type = "ability" THEN 1 ELSE 0)

\* abilityIndex after the first loop
abilityCount(rs) == Min(abilityRank(rs, Len(rs)), Len(abilities))

\* the first loop handing the first ability to every ability-type room
assignAbilitiesAllFirst(rs) ==
    [k \in 1..Len(rs) |->
        IF rs[k].type = "ability"
        THEN [rs[k] EXCEPT !.ability = abilities[1]]
        ELSE rs[k]]

\* the first loop: the rooms with their ability field assigned
assignAbilities(rs) ==
    [k \in 1..Len(rs) |->
        IF rs[k].type = "ability" /\ abilityRank(rs, k) <= Len(abilities)
        THEN [rs[k] EXCEPT !.ability = abilities[abilityRank(rs, k)]]
        ELSE rs[k]]

\* abilityLocations taking the center of the room at the ability's list position
locateAbilitiesByPosition(rs) ==
    [a \in {abilities[j] : j \in 1..abilityCount(rs)} |->
        rs[CHOOSE j \in 1..Len(abilities) : abilities[j] = a].center]

\* the first loop: this.abilityLocations
locateAbilities(rs) ==
    [a \in {abilities[j] : j \in 1..abilityCount(rs)} |->
        LET k == CHOOSE k \in 1..Len(rs) :
                    /\ rs[k].type = "ability"
                    /\ abilityRank(rs, k) <= Len(abilities)
                    /\ abilities[abilityRank(rs, k)] = a
        IN  rs[k].center]

\* the ability a gate requires, for the residue x of the draw
gateAbility(x, abilityIndex) ==
    abilities[FloorScaled(x, Min(abilityIndex, Len(abilities))) + 1]

\* the second loop running over every room: list index idx - GateStart
RECURSIVE gateLoopEveryRoom(_, _, _, _)
gateLoopEveryRoom(idx, rs, x, abilityIndex) ==
    IF ~(idx - GateStart < Len(rs)) THEN [rooms |-> rs, rand |-> x]
    ELSE LET rGate == NextRand(x)
             rPick == NextRand(rGate)
             pos == idx - GateStart + 1
         IN  IF Below(rGate, 3) /\ rs[pos].type # "spawn"
             THEN gateLoopEveryRoom(idx + 1,
                           [rs EXCEPT ![pos].requiredAbility =
                                          gateAbility(rPick, abilityIndex)],
                           rPick, abilityIndex)
             ELSE gateLoopEveryRoom(idx + 1, rs, rGate, abilityIndex)

\* the second loop from list index idx (0-based) on, the source having last
\* returned x: the rooms and the source afterwards
RECURSIVE gateLoop(_, _, _, _)
gateLoop(idx, rs, x, abilityIndex) ==
    IF ~(idx < Len(rs)) THEN [rooms |-> rs, rand |-> x]
    ELSE LET rGate == NextRand(x)
             rPick == NextRand(rGate)
         IN  IF Below(rGate, 3) /\ rs[idx + 1].type # "spawn"
             THEN gateLoop(idx + 1,
                           [rs EXCEPT ![idx + 1].requiredAbility =
                                          gateAbility(rPick, abilityIndex)],
                           rPick, abilityIndex)
             ELSE gateLoop(idx + 1, rs, rGate, abilityIndex)

----------------------------------------------------------------------------
(* generateRoomGeometries and createDoorway *)

\* room.tiles with walls on the left and right edges only
roomTilesSideWalls(room) ==
    [k \in 1..(room.width * room.height) |->
        LET x == (k - 1) \div room.height
            y == (k - 1) % room.height
            isWall == x = 0 \/ x = room.width - 1
        IN  [x |-> room.x + x, y |-> room.y + y,
             type |-> IF isWall THEN "wall" ELSE "floor"]]

\* room.tiles: x is the outer loop, y the inner one
roomTiles(room) ==
    [k \in 1..(room.width * room.height) |->
        LET x == (k - 1) \div room.height
            y == (k - 1) % room.height
            isWall == x = 0 \/ x = room.width - 1 \/ y = 0 \/ y = room.height - 1
        IN  [x |-> room.x + x, y |-> room.y + y,
             type |-> IF isWall THEN "wall" ELSE "floor"]]

\* the doorway placed one cell past the room's far edges
createDoorwayPastEdge(room, connection) ==
    LET otherId == IF connection.from = room.id THEN connection.to ELSE connection.from
    IN  [x |-> room.x + room.width, y |-> room.y + room.height,
         targetRoom |-> otherId]

\* the doorway createDoorway(room, connection) pushes
createDoorway(room, connection) ==
    LET otherId == IF connection.from = room.id THEN connection.to ELSE connection.from
        doorX == room.width \div 2
        doorY == room.height \div 2
    IN  [x |-> room.x + doorX, y |-> room.y + doorY, targetRoom |-> otherId]

\* room.doorways when only the connections leaving the room get a doorway
RECURSIVE roomDoorwaysFromOnly(_, _, _)
roomDoorwaysFromOnly(room, conns, k) ==
    IF k = 0 THEN room.doorways
    ELSE IF conns[k].from = room.id
         THEN Append(roomDoorwaysFromOnly(room, conns, k - 1),
                     createDoorway(room, conns[k]))
         ELSE roomDoorwaysFromOnly(room, conns, k - 1)

\* room.doorways after the loop over the first k connections
RECURSIVE roomDoorways(_, _, _)
roomDoorways(room, conns, k) ==
    IF k = 0 THEN room.doorways
    ELSE IF conns[k].from = room.id \/ conns[k].to = room.id
         THEN Append(roomDoorways(room, conns, k - 1), createDoorway(room, conns[k]))
         ELSE roomDoorways(room, conns, k - 1)

----------------------------------------------------------------------------
(* populateWorld *)

\* the enemies pushed by iterations n, n + 1, ... of the enemy loop, the
\* source having last returned x
RECURSIVE enemyLoop(_, _, _, _, _)
enemyLoop(room, n, enemyCount, enemies, x) ==
    IF ~(n < enemyCount) THEN [enemies |-> enemies, rand |-> x]
    ELSE LET rX == NextRand(x)
             rY == NextRand(rX)
             rType == NextRand(rY)
         IN  enemyLoop(room, n + 1, enemyCount,
                 Append(enemies,
                     [x |-> room.x + 2 + FloorScaled(rX, room.width - 4),
                      y |-> room.y + 2 + FloorScaled(rY, room.height - 4),
                      type |-> enemyTypes[FloorScaled(rType, 3) + 1]]),
                 rType)

\* one iteration of the loop over the rooms that empties the connections list
populateRoomUnlinked(room, x) ==
    LET hasEnemies == room.type = "normal" \/ room.type = "ability"
        rCount == NextRand(x)
        spawned == IF hasEnemies
                   THEN enemyLoop(room, 0, FloorScaled(rCount, 3), <<>>, rCount)
                   ELSE [enemies |-> <<>>, rand |-> x]
        rItem == NextRand(spawned.rand)
        items == IF Below(rItem, 3)
                 THEN <<[x |-> room.x + room.width \div 2,
                         y |-> room.y + room.height \div 2, type |-> "health"]>>
                 ELSE <<>>
    IN  [room |-> [room EXCEPT !.enemies = spawned.enemies, !.items = items,
                               !.connections = <<>>],
         rand |-> rItem]

\* one iteration of the loop over the rooms
populateRoom(room, x) ==
    LET hasEnemies == room.type = "normal" \/ room.type = "ability"
        rCount == NextRand(x)
        spawned == IF hasEnemies
                   THEN enemyLoop(room, 0, FloorScaled(rCount, 3), <<>>, rCount)
                   ELSE [enemies |-> <<>>, rand |-> x]
        rItem == NextRand(spawned.rand)
        items == IF Below(rItem, 3)
                 THEN <<[x |-> room.x + room.width \div 2,
                         y |-> room.y + room.height \div 2, type |-> "health"]>>
                 ELSE <<>>
    IN  [room |-> [room EXCEPT !.enemies = spawned.enemies, !.items = items],
         rand |-> rItem]

\* the loop over the rooms from list position k (1-based) on; the iteration
\* is bound by a quantifier so that it is evaluated once
RECURSIVE populateLoop(_, _, _)
populateLoop(k, rs, x) ==
    IF k > Len(rs) THEN [rooms |-> rs, rand |-> x]
    ELSE CHOOSE result \in
             {populateLoop(k + 1, [rs EXCEPT ![k] = done.room], done.rand) :
                  done \in {populateRoom(rs[k], x)}} : TRUE

----------------------------------------------------------------------------
(* buildTilemap *)

\* the guard before a write with the guard left out
inGridAlways(worldX, worldY) == TRUE

\* the guard before a write: the cell is inside the grid
inGrid(worldX, worldY) ==
    /\ worldX >= 0 /\ worldX < GridWidth
    /\ worldY >= 0 /\ worldY < GridHeight

\* the writes of one room with a doorway coded on its anchor cell only
fillRoomAnchorOnly(built, room) ==
    LET map == built.map
        xs == room.x..(room.x + room.width - 1)
        ys == room.y..(room.y + room.height - 1)
    IN  IF \/ built.threw
           \/ \E wy \in ys : wy \notin DOMAIN map /\ \E wx \in xs : inGrid(wx, wy)
        THEN [threw |-> TRUE, map |-> map]
        ELSE [threw |-> FALSE,
              map |-> [wy \in DOMAIN map |->
                  [wx \in DOMAIN map[wy]
                          \cup {v \in xs : wy \in ys /\ inGrid(v, wy)} |->
                      LET x == wx - room.x
                          y == wy - room.y
                      IN  IF wx \in xs /\ wy \in ys /\ inGrid(wx, wy)
                          THEN LET isWall == x = 0 \/ x = room.width - 1
                                                 \/ y = 0 \/ y = room.height - 1
                                   isDoorway == \E n \in 1..Len(room.doorways) :
                                       LET d == room.doorways[n] IN
                                       d.x = wx /\ d.y = wy
                               IN  IF isDoorway THEN 2 ELSE IF isWall THEN 1 ELSE 0
                          ELSE map[wy][wx]]]]

\* the writes of one room into the map.  built.map is the array of rows,
\* built.threw says that an earlier write raised a TypeError.  A write to a
\* row the map does not have raises a TypeError; a write to a cell the row
\* does not have adds the cell to the row.
fillRoom(built, room) ==
    LET map == built.map
        xs == room.x..(room.x + room.width - 1)
        ys == room.y..(room.y + room.height - 1)
    IN  IF \/ built.threw
           \/ \E wy \in ys : wy \notin DOMAIN map /\ \E wx \in xs : inGrid(wx, wy)
        THEN [threw |-> TRUE, map |-> map]
        ELSE [threw |-> FALSE,
              map |-> [wy \in DOMAIN map |->
                  [wx \in DOMAIN map[wy]
                          \cup {v \in xs : wy \in ys /\ inGrid(v, wy)} |->
                      LET x == wx - room.x
                          y == wy - room.y
                      IN  IF wx \in xs /\ wy \in ys /\ inGrid(wx, wy)
                          THEN LET isWall == x = 0 \/ x = room.width - 1
                                                 \/ y = 0 \/ y = room.height - 1
                                   isDoorway == \E n \in 1..Len(room.doorways) :
                                       LET d == room.doorways[n] IN
                                       /\ d.x - wx <= 1 /\ wx - d.x <= 1
                                       /\ d.y - wy <= 1 /\ wy - d.y <= 1
                               IN  IF isDoorway THEN 2 ELSE IF isWall THEN 1 ELSE 0
                          ELSE map[wy][wx]]]]

\* the map after the first k rooms; the map so far is bound by a quantifier
\* so that it is evaluated once
RECURSIVE fillRooms(_, _)
fillRooms(rs, k) ==
    IF k = 0
    THEN [threw |-> FALSE,
          map |-> [wy \in 0..(GridHeight - 1) |-> [wx \in 0..(GridWidth - 1) |-> 0]]]
    ELSE CHOOSE result \in
             {fillRoom(built, rs[k]) : built \in {fillRooms(rs, k - 1)}} : TRUE

buildTilemap(rs) == fillRooms(rs, Len(rs))

----------------------------------------------------------------------------
(* State machine *)

\* after new MetroidvaniaGenerator(60, 40); this.abilityLocations is undefined
\* until placeAbilityGates runs
Init ==
    /\ phase = "new"
    /\ calls = 0
    /\ rand \in 0..(NumSeeds - 1)
    /\ numRooms = 0
    /\ i = 0
    /\ attempts = 0
    /\ rooms = <<>>
    /\ connections = <<>>
    /\ abilityLocations = <<>>
    /\ skipped = {}
    /\ attemptsMade = 0
    /\ world = NULL

\* the position after one index of the for loop is finished
nextIndex(sk) ==
    /\ i' = i + 1
    /\ attempts' = 0
    /\ skipped' = sk
    /\ phase' = IF loopContinues(i + 1, numRooms) THEN "graph" ELSE "gates"

\* generate() up to the first iteration of the while loop: the numRooms draw
\* and the spawn room of generateRoomGraph
beginGraph ==
    /\ rand' = NextRand(rand)
    /\ numRooms' = MinRooms + FloorScaled(rand', RoomSpan)
    /\ rooms' = Append(rooms, spawnRoom)
    /\ i' = 1
    /\ attempts' = 0
    /\ skipped' = {}
    /\ attemptsMade' = 0
    /\ calls' = calls + 1
    /\ phase' = IF loopContinues(1, numRooms') THEN "graph" ELSE "gates"
    /\ UNCHANGED <<connections, abilityLocations, world>>

\* the first generate() call on a new generator
Generate ==
    /\ phase = "new"
    /\ beginGraph

\* a further generate() call on the generator that has returned
GenerateAgain ==
    /\ phase = "done"
    /\ calls < MaxCalls
    /\ beginGraph

\* one iteration of the while loop of generateRoomGraph
Attempt ==
    /\ phase = "graph"
    /\ LET drawn == newRoomDraw(i, numRooms, rooms, rand)
           newRoom == drawn.room
           parentRoom == rooms[drawn.parent + 1]
           placed == ~roomsOverlap(newRoom, rooms)
       IN  /\ rand' = drawn.rand
           /\ attemptsMade' = attemptsMade + 1
           /\ IF placed
              THEN /\ rooms' = Append(
                          [rooms EXCEPT ![drawn.parent + 1].connections =
                                            Append(@, newRoom.id)],
                          [newRoom EXCEPT !.center = roomCenter(newRoom)])
                   /\ connections' = Append(connections,
                                            newConnection(parentRoom, newRoom))
              ELSE UNCHANGED <<rooms, connections>>
           /\ IF whileContinues(placed, attempts + 1)
              THEN /\ attempts' = attempts + 1
                   /\ UNCHANGED <<i, skipped, phase>>
              ELSE nextIndex(IF placed THEN skipped ELSE skipped \cup {i})
    /\ UNCHANGED <<calls, numRooms, abilityLocations, world>>

placeAbilityGates ==
    /\ phase = "gates"
    /\ LET gated == gateLoop(GateStart, assignAbilities(rooms), rand,
                             abilityCount(rooms))
       IN  /\ abilityLocations' = locateAbilities(rooms)
           /\ rooms' = gated.rooms
           /\ rand' = gated.rand
    /\ phase' = "geometry"
    /\ UNCHANGED <<calls, numRooms, i, attempts, connections, skipped,
                   attemptsMade, world>>

generateRoomGeometries ==
    /\ phase = "geometry"
    /\ rooms' = [k \in 1..Len(rooms) |->
                    [rooms[k] EXCEPT
                        !.tiles = roomTiles(rooms[k]),
                        !.doorways = roomDoorways(rooms[k], connections,
                                                  Len(connections))]]
    /\ phase' = "populate"
    /\ UNCHANGED <<calls, rand, numRooms, i, attempts, connections,
                   abilityLocations, skipped, attemptsMade, world>>

populateWorld ==
    /\ phase = "populate"
    /\ LET populated == populateLoop(1, rooms, rand)
       IN  /\ rooms' = populated.rooms
           /\ rand' = populated.rand
    /\ phase' = "tilemap"
    /\ UNCHANGED <<calls, numRooms, i, attempts, connections, abilityLocations,
                   skipped, attemptsMade, world>>

\* the return statement of generate(), buildTilemap() included; an error
\* raised by buildTilemap() leaves generate() without a returned world
Return ==
    /\ phase = "tilemap"
    /\ \E built \in {buildTilemap(rooms)} :
           IF built.threw
           THEN /\ phase' = "threw"
                /\ UNCHANGED world
           ELSE /\ phase' = "done"
                /\ world' = [rooms |-> rooms,
                             connections |-> connections,
                             tilemap |-> built.map,
                             playerStart |-> rooms[1].center,
                             abilityLocations |-> abilityLocations]
    /\ UNCHANGED <<calls, rand, numRooms, i, attempts, rooms, connections,
                   abilityLocations, skipped, attemptsMade>>

\* GameScene.generateWorld: every world comes from a new generator
Next ==
    \/ Generate
    \/ Attempt
    \/ placeAbilityGates
    \/ generateRoomGeometries
    \/ populateWorld
    \/ Return

Spec == Init /\ [][Next]_vars

\* generate() runs to completion once called
FairSpec == Spec /\ WF_vars(Next)

\* generate() called again on the same generator
NextAgain ==
    \/ Next
    \/ GenerateAgain

SpecAgain == Init /\ [][NextAgain]_vars

----------------------------------------------------------------------------
(* Properties of the returned world *)

RECURSIVE SeqToSet(_)
SeqToSet(q) == IF q = <<>> THEN {} ELSE {Head(q)} \cup SeqToSet(Tail(q))

returned == phase = "done"

roomIds(rs) == {rs[k].id : k \in 1..Len(rs)}

\* the room ids a breadth-first traversal over conns, taken as undirected
\* edges, visits from the ids in seen
RECURSIVE visited(_, _)
visited(conns, seen) ==
    LET edges == SeqToSet(conns)
        next == seen \cup {c.to : c \in {e \in edges : e.from \in seen}}
                     \cup {c.from : c \in {e \in edges : e.to \in seen}}
    IN  IF next = seen THEN seen ELSE visited(conns, next)

\* C1: in every world generate() returns, from a new generator or from one
\* used before, a breadth-first traversal over the connections,
\* taken as undirected edges, from room id 0 visits the id of every room,
\* whatever indices were skipped
C1_Connected ==
    returned => roomIds(world.rooms) \subseteq visited(world.connections, {0})

\* C1: a returned world in which an index was skipped and later indices were
\* placed, some of them not attached to the spawn room
C1_Witness ==
    /\ returned
    /\ \E a \in skipped : \E b \in roomIds(world.rooms) : a < b
    /\ \E n \in 1..Len(world.connections) : world.connections[n].from # 0

\* C2: in every returned world, the requiredAbility of every room that has one
\* is a key of abilityLocations
C2_GatingSound ==
    returned =>
        \A k \in 1..Len(world.rooms) :
            world.rooms[k].requiredAbility # NULL
                => world.rooms[k].requiredAbility \in DOMAIN world.abilityLocations

\* the bounding boxes of a and b, a expanded by padA and b by padB cells on
\* all four sides, intersect
boxesIntersect(a, padA, b, padB) ==
    /\ a.x - padA < b.x + b.width + padB
    /\ b.x - padB < a.x + a.width + padA
    /\ a.y - padA < b.y + b.height + padB
    /\ b.y - padB < a.y + a.height + padA

roomsWithId(rs, id) == {k \in 1..Len(rs) : rs[k].id = id}

\* C4: in every returned world, for every Connection {from, to}, to is in the
\* connections list of room from and from is in the connections list of room
\* to, and every id in a room's connections list belongs to a Connection
\* joining the two rooms
C4_Mirrored ==
    returned =>
        /\ \A n \in 1..Len(world.connections) :
            LET c == world.connections[n] IN
            /\ \A k \in roomsWithId(world.rooms, c.from) :
                   c.to \in SeqToSet(world.rooms[k].connections)
            /\ \A k \in roomsWithId(world.rooms, c.to) :
                   c.from \in SeqToSet(world.rooms[k].connections)
        /\ \A k \in 1..Len(world.rooms) :
            \A id \in SeqToSet(world.rooms[k].connections) :
                \E n \in 1..Len(world.connections) :
                    LET c == world.connections[n] IN
                    \/ c.from = world.rooms[k].id /\ c.to = id
                    \/ c.to = world.rooms[k].id /\ c.from = id

\* C5: in every world returned by a new generator exactly one room has type
\* spawn, it is rooms[0] with id 0, and its requiredAbility is null
C5_OneSpawn ==
    returned =>
        /\ Cardinality({k \in 1..Len(world.rooms) : world.rooms[k].type = "spawn"}) = 1
        /\ world.rooms[1].type = "spawn"
        /\ world.rooms[1].id = 0
        /\ world.rooms[1].requiredAbility = NULL

\* C5: a returned world in which ability gating has gated a room
C5_Witness ==
    /\ returned
    /\ \E k \in 1..Len(world.rooms) : world.rooms[k].requiredAbility # NULL

\* C6: in every returned world every room, the spawn room included, has
\* center = ((x + width/2) * tileSize, (y + height/2) * tileSize)
C6_Centers ==
    returned =>
        \A k \in 1..Len(world.rooms) :
            LET r == world.rooms[k] IN
            /\ 2 * r.center.x = (2 * r.x + r.width) * tileSize
            /\ 2 * r.center.y = (2 * r.y + r.height) * tileSize

\* C7: the world a second generate() call on the same generator returns has
\* exactly one spawn room, unique room ids and at most 24 rooms
C7_Replaced ==
    (returned /\ calls > 1) =>
        /\ Cardinality({k \in 1..Len(world.rooms) : world.rooms[k].type = "spawn"}) = 1
        /\ \A k, l \in 1..Len(world.rooms) :
               world.rooms[k].id = world.rooms[l].id => k = l
        /\ Len(world.rooms) <= MinRooms + RoomSpan - 1

\* C8: in every world returned by a new generator 1 <= len(rooms) <= 24, the
\* number of rooms does not exceed the target count, which lies in 15..24,
\* and it is below the target only when some index used all its attempts
C8_RoomCount ==
    returned =>
        /\ 1 <= Len(world.rooms)
        /\ Len(world.rooms) <= numRooms
        /\ MinRooms <= numRooms
        /\ numRooms <= MinRooms + RoomSpan - 1
        /\ Len(world.rooms) < numRooms => skipped # {}

\* C8: a returned world with the largest target count and all its rooms placed
C8_Witness ==
    /\ returned
    /\ numRooms = MinRooms + RoomSpan - 1
    /\ Len(world.rooms) = numRooms

\* C9: in generate() on a new generator the room graph loop makes at most 50
\* attempts per index, at most (numRooms - 1) * 50 in all, and generate()
\* returns
C9_Terminates ==
    /\ [](phase # "new" =>
            /\ attempts < MaxAttempts
            /\ attemptsMade <= (numRooms - 1) * MaxAttempts
            /\ phase = "graph" => attemptsMade <= (i - 1) * MaxAttempts + attempts)
    /\ <>returned

\* C9: a returned world for which every candidate overlapped
C9_Witness ==
    /\ returned
    /\ attemptsMade = (numRooms - 1) * MaxAttempts
    /\ Len(world.rooms) = 1

\* C11: in every returned world every key of abilityLocations is one of the
\* four fixed ability names, and no two rooms carry the same ability value
C11_AbilityUnique ==
    returned =>
        /\ DOMAIN world.abilityLocations \subseteq SeqToSet(abilities)
        /\ Len(abilities) = 4
        /\ \A k, l \in 1..Len(world.rooms) :
               (/\ world.rooms[k].ability # NULL
                /\ world.rooms[k].ability = world.rooms[l].ability) => k = l

\* C11: a returned world with more ability-type rooms than ability names
C11_Witness ==
    /\ returned
    /\ Cardinality({k \in 1..Len(world.rooms) :
                        world.rooms[k].type = "ability"}) > Len(abilities)
    /\ Cardinality(DOMAIN world.abilityLocations) = Len(abilities)

\* the number of ability-type rooms before list position k
abilityRoomsBefore(rs, k) ==
    Cardinality({l \in 1..(k - 1) : rs[l].type = "ability"})

\* C12: in every returned world the k-th ability-type room of rooms, k < 4
\* counting from 0, has the k-th ability name and abilityLocations maps that
\* name to the room's center; later ability-type rooms and rooms of other
\* types have no ability; abilityLocations has min(ability-type rooms, 4) keys
C12_AbilityOrder ==
    returned =>
        /\ \A k \in 1..Len(world.rooms) :
            LET r == world.rooms[k]
                n == abilityRoomsBefore(world.rooms, k)
            IN  IF r.type = "ability" /\ n < 4
                THEN /\ r.ability = abilities[n + 1]
                     /\ r.ability \in DOMAIN world.abilityLocations
                     /\ world.abilityLocations[r.ability] = r.center
                ELSE r.ability = NULL
        /\ Cardinality(DOMAIN world.abilityLocations)
               = Min(abilityRoomsBefore(world.rooms, Len(world.rooms) + 1), 4)

\* C12: a returned world with two to three ability-type rooms
C12_Witness ==
    /\ returned
    /\ abilityRoomsBefore(world.rooms, Len(world.rooms) + 1) \in {2, 3}
    /\ \E k \in 1..Len(world.rooms) : world.rooms[k].ability = abilities[2]

\* C13: in every returned world the (x, y) of every doorway lies inside the
\* footprint of the room that owns it, border included
C13_DoorwayInside ==
    returned =>
        \A k \in 1..Len(world.rooms) :
            LET r == world.rooms[k] IN
            \A n \in 1..Len(r.doorways) :
                LET d == r.doorways[n] IN
                /\ r.x <= d.x /\ d.x <= r.x + r.width - 1
                /\ r.y <= d.y /\ d.y <= r.y + r.height - 1

\* C13: a returned world with a doorway in a room of the smallest height and
\* a doorway in a room of the smallest width
C13_Witness ==
    /\ returned
    /\ \E k \in 1..Len(world.rooms) :
           world.rooms[k].height = 4 /\ world.rooms[k].doorways # <<>>
    /\ \E k \in 1..Len(world.rooms) :
           world.rooms[k].width = 6 /\ world.rooms[k].doorways # <<>>

\* C14: generate() raises no error, and the tilemap of every returned world
\* has exactly GridHeight rows of exactly GridWidth cells, each cell in
\* {0, 1, 2}, also when rooms lie partly or wholly outside the grid
C14_TilemapShape ==
    /\ phase # "threw"
    /\ returned =>
        /\ DOMAIN world.tilemap = 0..(GridHeight - 1)
        /\ \A wy \in DOMAIN world.tilemap :
            /\ DOMAIN world.tilemap[wy] = 0..(GridWidth - 1)
            /\ \A wx \in DOMAIN world.tilemap[wy] :
                   world.tilemap[wy][wx] \in {0, 1, 2}

\* C14: a returned world with a room that has cells at negative coordinates,
\* a room that has cells beyond the last column or row, and cells of all
\* three values
C14_Witness ==
    /\ returned
    /\ \E k \in 1..Len(world.rooms) :
           world.rooms[k].x < 0 \/ world.rooms[k].y < 0
    /\ \E k \in 1..Len(world.rooms) :
           \/ world.rooms[k].x + world.rooms[k].width > GridWidth
           \/ world.rooms[k].y + world.rooms[k].height > GridHeight
    /\ \A v \in {0, 1, 2} :
           \E wy \in DOMAIN world.tilemap : \E wx \in DOMAIN world.tilemap[wy] :
               world.tilemap[wy][wx] = v

\* C15: in every returned world every doorway marks a border-wall cell of the
\* room that owns it: its local x is 0 or width - 1, or its local y is 0 or
\* height - 1
C15_DoorwayOnBorder ==
    returned =>
        \A k \in 1..Len(world.rooms) :
            LET r == world.rooms[k] IN
            \A n \in 1..Len(r.doorways) :
                LET d == r.doorways[n] IN
                \/ d.x - r.x = 0 \/ d.x - r.x = r.width - 1
                \/ d.y - r.y = 0 \/ d.y - r.y = r.height - 1

\* the list positions of the rooms a player has entered who holds the
\* abilities of the rooms in entered, moves along the connections in either
\* direction and enters a room only when its requiredAbility is null or held
RECURSIVE playerEnters(_, _)
playerEnters(w, entered) ==
    LET held == {w.rooms[k].ability : k \in entered} \ {NULL}
        joined(k, l) ==
            \E n \in 1..Len(w.connections) :
                LET c == w.connections[n] IN
                \/ c.from = w.rooms[k].id /\ c.to = w.rooms[l].id
                \/ c.to = w.rooms[k].id /\ c.from = w.rooms[l].id
        next == entered \cup
                    {l \in 1..Len(w.rooms) :
                        /\ w.rooms[l].requiredAbility \in held \cup {NULL}
                        /\ \E k \in entered : joined(k, l)}
    IN  IF next = entered THEN entered ELSE playerEnters(w, next)

\* C16: in every returned world a player who starts in the spawn room with no
\* ability, moves along connections, enters a room only when its
\* requiredAbility is null or held and gains a room's ability on entering
\* it, can enter every room
C16_Completable ==
    returned => playerEnters(world, {1}) = 1..Len(world.rooms)

\* C17: in every returned world playerStart lies inside the spawn room:
\* playerStart.x between rooms[0].x * tileSize and
\* (rooms[0].x + rooms[0].width) * tileSize, and likewise for y
C17_StartInSpawn ==
    returned =>
        LET r == world.rooms[1]
            p == world.playerStart
        IN  /\ r.x * tileSize <= p.x
            /\ p.x <= (r.x + r.width) * tileSize
            /\ r.y * tileSize <= p.y
            /\ p.y <= (r.y + r.height) * tileSize

\* C18: in every world returned by a new generator the type of each room
\* other than the spawn room follows from its id and the target count n:
\* boss if id = n - 1, otherwise ability if id mod 4 = 0, otherwise save if
\* id mod 3 = 0, otherwise secret or normal
C18_TypeById ==
    returned =>
        \A k \in 2..Len(world.rooms) :
            LET r == world.rooms[k] IN
            IF r.id = numRooms - 1 THEN r.type = "boss"
            ELSE IF r.id % 4 = 0 THEN r.type = "ability"
            ELSE IF r.id % 3 = 0 THEN r.type = "save"
            ELSE r.type \in {"secret", "normal"}

\* C18: a returned world in which id 12 is not the final id and is placed,
\* the final id is divisible by 4 or 3 and is placed, and both secret and
\* normal rooms occur
C18_Witness ==
    /\ returned
    /\ numRooms - 1 # 12
    /\ (numRooms - 1) % 4 = 0 \/ (numRooms - 1) % 3 = 0
    /\ {12, numRooms - 1} \subseteq roomIds(world.rooms)
    /\ \E k \in 1..Len(world.rooms) : world.rooms[k].type = "secret"
    /\ \E k \in 1..Len(world.rooms) : world.rooms[k].type = "normal"

\* C19: in generate() on a new generator, an index that uses all its attempts
\* without an accepted candidate gets no room, the loop goes on with the next
\* index, and generate() returns without an error; the ids in rooms are
\* strictly increasing in list order
C19_SkipIsNotAnError ==
    /\ [](/\ skipped \cap roomIds(rooms) = {}
          /\ \A k, l \in 1..Len(rooms) : k < l => rooms[k].id < rooms[l].id
          /\ phase # "threw")
    /\ [][(i \in skipped' \ skipped) => (i' = i + 1 /\ attempts' = 0)]_vars
    /\ [](skipped # {} => <>returned)

\* C19: a returned world whose ids have a gap of one skipped index between
\* two placed ones
C19_Witness ==
    /\ returned
    /\ \E s \in skipped : {s - 1, s + 1} \subseteq roomIds(world.rooms)
    /\ \A s \in skipped : s \notin roomIds(world.rooms)

\* C20: every iteration of the placement loop either leaves rooms,
\* connections and every room's connections list unchanged, or appends
\* exactly one room with the id of the running index, exactly one Connection
\* {from: parent id, to: new id, type 'normal'} and the new id to the
\* parent's connections list, changes nothing else in the rooms, and ends
\* the attempts for that index
C20_AttemptAllOrNothing ==
    [][phase = "graph" =>
        \/ (rooms' = rooms /\ connections' = connections)
        \/ \E p \in 1..Len(rooms) :
            /\ Len(rooms') = Len(rooms) + 1
            /\ rooms'[Len(rooms) + 1].id = i
            /\ rooms'[Len(rooms) + 1].connections = <<>>
            /\ \A k \in 1..Len(rooms) :
                   rooms'[k] = IF k = p
                               THEN [rooms[k] EXCEPT !.connections = Append(@, i)]
                               ELSE rooms[k]
            /\ connections' = Append(connections,
                   [from |-> rooms[p].id, to |-> i, type |-> "normal"])
            /\ i' = i + 1
            /\ attempts' = 0]_vars

\* C20: inside the placement loop, after candidates were accepted and
\* candidates were rejected, some accepted with a parent other than the spawn
\* room
C20_Witness ==
    /\ phase = "graph"
    /\ Len(rooms) > 2
    /\ attemptsMade > Len(rooms)
    /\ \E n \in 1..Len(connections) : connections[n].from # 0

\* C21: in every world returned by a new generator the connections form a
\* tree rooted at the spawn room: len(connections) = len(rooms) - 1, every
\* Connection has from < to and joins rooms of the world, every room other
\* than the spawn room is the `to` of exactly one Connection, room 0 is never
\* a `to`, and no pair of rooms is joined by two Connections
C21_Tree ==
    returned =>
        LET conns == world.connections
            ids == roomIds(world.rooms)
        IN  /\ Len(conns) = Len(world.rooms) - 1
            /\ \A n \in 1..Len(conns) :
                /\ conns[n].from < conns[n].to
                /\ conns[n].from \in ids
                /\ conns[n].to \in ids
                /\ conns[n].to # 0
            /\ \A id \in ids \ {0} :
                   Cardinality({n \in 1..Len(conns) : conns[n].to = id}) = 1
            /\ \A n, m \in 1..Len(conns) :
                   (/\ {conns[n].from, conns[n].to} = {conns[m].from, conns[m].to})
                       => n = m

\* C21: a returned world whose tree has a room with several children and a
\* room at depth three or more
C21_Witness ==
    /\ returned
    /\ \E k \in 2..Len(world.rooms) : Len(world.rooms[k].connections) >= 2
    /\ \E a, b, c \in 1..Len(world.connections) :
        /\ world.connections[a].from = 0
        /\ world.connections[b].from = world.connections[a].to
        /\ world.connections[c].from = world.connections[b].to

\* the types of the rooms of rs that have a requiredAbility
gatedTypes(rs) ==
    {rs[k].type : k \in {l \in 1..Len(rs) : rs[l].requiredAbility # NULL}}

\* C22: in every returned world the rooms at list positions 0, 1 and 2 have
\* requiredAbility null; a room at position 3 or later has requiredAbility
\* null or one of the ability names, whatever its type other than spawn
C22_GateFromThird ==
    returned =>
        /\ \A k \in 1..Min(GateStart, Len(world.rooms)) :
               world.rooms[k].requiredAbility = NULL
        /\ \A k \in 1..Len(world.rooms) :
               world.rooms[k].requiredAbility \in SeqToSet(abilities) \cup {NULL}
        /\ "spawn" \notin gatedTypes(world.rooms)

\* C22: a returned world in which rooms of all five types other than spawn
\* are gated
C22_Witness ==
    /\ returned
    /\ gatedTypes(world.rooms) = {"boss", "ability", "save", "secret", "normal"}

inFootprint(r, wx, wy) ==
    /\ r.x <= wx /\ wx < r.x + r.width
    /\ r.y <= wy /\ wy < r.y + r.height

\* cell (wx, wy) is a border cell of room r
onBorder(r, wx, wy) ==
    \/ wx = r.x \/ wx = r.x + r.width - 1
    \/ wy = r.y \/ wy = r.y + r.height - 1

\* cell (wx, wy) is within Chebyshev distance 1 of a doorway of room r
nearDoorway(r, wx, wy) ==
    \E n \in 1..Len(r.doorways) :
        /\ r.doorways[n].x - wx \in {-1, 0, 1}
        /\ r.doorways[n].y - wy \in {-1, 0, 1}

\* C24: in every world returned by a new generator, the tilemap value of a
\* grid cell in the footprint of a room is 2 if the cell is within Chebyshev
\* distance 1 of a doorway of that room, otherwise 1 if it is a border cell of
\* the room, otherwise 0; a grid cell in no footprint is 0
C24_TilemapValues ==
    returned =>
        \A wy \in 0..(GridHeight - 1) : \A wx \in 0..(GridWidth - 1) :
            LET owners == {k \in 1..Len(world.rooms) :
                              inFootprint(world.rooms[k], wx, wy)}
            IN  IF owners = {} THEN world.tilemap[wy][wx] = 0
                ELSE \A k \in owners :
                    world.tilemap[wy][wx] =
                        IF nearDoorway(world.rooms[k], wx, wy) THEN 2
                        ELSE IF onBorder(world.rooms[k], wx, wy) THEN 1
                        ELSE 0

\* C24: a returned world whose tilemap has a border cell of a room coded 2
\* and a cell coded 1 of a room cut by the grid's edge
C24_Witness ==
    /\ returned
    /\ \E k \in 1..Len(world.rooms) :
        LET r == world.rooms[k] IN
        \E wy \in 0..(GridHeight - 1) : \E wx \in 0..(GridWidth - 1) :
            /\ inFootprint(r, wx, wy) /\ onBorder(r, wx, wy)
            /\ world.tilemap[wy][wx] = 2
    /\ \E k \in 1..Len(world.rooms) :
        LET r == world.rooms[k] IN
        /\ r.x < 0 \/ r.y < 0 \/ r.x + r.width > GridWidth
                   \/ r.y + r.height > GridHeight
        /\ \E wy \in 0..(GridHeight - 1) : \E wx \in 0..(GridWidth - 1) :
               inFootprint(r, wx, wy) /\ world.tilemap[wy][wx] = 1

\* C25: in every returned world every room that has a doorway has a border
\* cell that is a passage: a border cell of its footprint within Chebyshev
\* distance 1 of one of its doorways, coded 2 in the tilemap when it lies in
\* the grid
C25_WallOpened ==
    returned =>
        \A k \in 1..Len(world.rooms) :
            LET r == world.rooms[k] IN
            r.doorways # <<>> =>
                \E wx \in r.x..(r.x + r.width - 1) :
                    \E wy \in r.y..(r.y + r.height - 1) :
                        /\ onBorder(r, wx, wy)
                        /\ nearDoorway(r, wx, wy)
                        /\ inGrid(wx, wy) => world.tilemap[wy][wx] = 2

\* C26: in every returned world every enemy is at least 2 cells inside each
\* of the four borders of its room: room.x + 2 <= e.x <= room.x + width - 3
\* and room.y + 2 <= e.y <= room.y + height - 3
C26_EnemyInset ==
    returned =>
        \A k \in 1..Len(world.rooms) :
            LET r == world.rooms[k] IN
            \A n \in 1..Len(r.enemies) :
                LET e == r.enemies[n] IN
                /\ r.x + 2 <= e.x /\ e.x <= r.x + r.width - 3
                /\ r.y + 2 <= e.y /\ e.y <= r.y + r.height - 3

\* C27: in every returned world every room has exactly width * height tiles,
\* one per cell (room.x + lx, room.y + ly) of its footprint, and a tile is
\* wall exactly when lx is 0 or width - 1 or ly is 0 or height - 1, and floor
\* otherwise
C27_Tiles ==
    returned =>
        \A k \in 1..Len(world.rooms) :
            LET r == world.rooms[k] IN
            /\ Len(r.tiles) = r.width * r.height
            /\ \A lx \in 0..(r.width - 1) : \A ly \in 0..(r.height - 1) :
                LET at == {n \in 1..Len(r.tiles) :
                              r.tiles[n].x = r.x + lx /\ r.tiles[n].y = r.y + ly}
                IN  /\ Cardinality(at) = 1
                    /\ \A n \in at :
                        r.tiles[n].type =
                            IF lx = 0 \/ lx = r.width - 1 \/ ly = 0 \/ ly = r.height - 1
                            THEN "wall" ELSE "floor"

\* C27: a returned world with a room of the smallest size, a room of the
\* largest width and a room of the largest height
C27_Witness ==
    /\ returned
    /\ \E k \in 1..Len(world.rooms) :
           world.rooms[k].width = 6 /\ world.rooms[k].height = 4
    /\ \E k \in 1..Len(world.rooms) : world.rooms[k].width = 11
    /\ \E k \in 1..Len(world.rooms) : world.rooms[k].height = 7

\* the fields of a room that the room graph fixes
graphFields(r) ==
    [id |-> r.id, x |-> r.x, y |-> r.y, width |-> r.width, height |-> r.height,
     type |-> r.type, connections |-> r.connections]

\* C28: the stages after the room graph (ability gating, rasterization,
\* population, tilemap composition) change no room's id, x, y, width, height,
\* type or connections list, nor the number or order of the rooms and of the
\* Connections
C28_LaterStagesKeepGraph ==
    [][(phase \in {"gates", "geometry", "populate", "tilemap"}) =>
        (/\ connections' = connections
         /\ Len(rooms') = Len(rooms)
         /\ \A k \in 1..Len(rooms) :
                graphFields(rooms'[k]) = graphFields(rooms[k]))]_vars

\* C28: the state before the tilemap is composed, the earlier stages having
\* set an ability, a requiredAbility, doorways, enemies and items
C28_Witness ==
    /\ phase = "tilemap"
    /\ \E k \in 1..Len(rooms) : rooms[k].ability # NULL
    /\ \E k \in 1..Len(rooms) : rooms[k].requiredAbility # NULL
    /\ \E k \in 1..Len(rooms) : Len(rooms[k].doorways) > 1
    /\ \E k \in 1..Len(rooms) : rooms[k].enemies # <<>>
    /\ \E k \in 1..Len(rooms) : rooms[k].items # <<>>
    /\ \E k \in 1..Len(rooms) : rooms[k].tiles # <<>>

\* the number of cells between the intervals lo1 .. lo1 + len1 - 1 and
\* lo2 .. lo2 + len2 - 1, negative when they intersect
gap(lo1, len1, lo2, len2) ==
    IF lo1 <= lo2 THEN lo2 - (lo1 + len1) ELSE lo1 - (lo2 + len2)

\* C29: in every world returned by a new generator, any two distinct rooms
\* have a gap of at least 2 cells between their footprints along the x axis
\* or along the y axis, and no cell belongs to the footprint of two rooms
C29_GapOfTwo ==
    returned =>
        \A k, l \in 1..Len(world.rooms) :
            k # l =>
                LET a == world.rooms[k]
                    b == world.rooms[l]
                IN  /\ \/ gap(a.x, a.width, b.x, b.width) >= 2
                       \/ gap(a.y, a.height, b.y, b.height) >= 2
                    /\ ~\E wx \in a.x..(a.x + a.width - 1) :
                           \E wy \in a.y..(a.y + a.height - 1) :
                               inFootprint(b, wx, wy)

\* C29: a returned world with two rooms exactly 2 cells apart along one axis
\* whose extents along the other axis intersect
C29_Witness ==
    /\ returned
    /\ \E k, l \in 1..Len(world.rooms) :
        LET a == world.rooms[k]
            b == world.rooms[l]
        IN  \/ /\ gap(a.x, a.width, b.x, b.width) = 2
               /\ gap(a.y, a.height, b.y, b.height) < 0
            \/ /\ gap(a.y, a.height, b.y, b.height) = 2
               /\ gap(a.x, a.width, b.x, b.width) < 0

\* the sequence s in reverse order
Reverse(s) == [k \in 1..Len(s) |-> s[Len(s) + 1 - k]]

\* the sequence s with the elements at positions k and l exchanged
Exchange(s, k, l) == [s EXCEPT ![k] = s[l], ![l] = s[k]]

\* C30: for every world returned by a new generator, composing the tilemap
\* from the rooms in another order (the reverse order, or the order with any
\* two neighbouring rooms exchanged) yields the returned tilemap, and no cell
\* of the grid is written by more than one room
C30_OrderIndependent ==
    returned =>
        /\ buildTilemap(Reverse(world.rooms)).map = world.tilemap
        /\ \A k \in 1..(Len(world.rooms) - 1) :
               buildTilemap(Exchange(world.rooms, k, k + 1)).map = world.tilemap
        /\ \A wy \in 0..(GridHeight - 1) : \A wx \in 0..(GridWidth - 1) :
               Cardinality({k \in 1..Len(world.rooms) :
                               inFootprint(world.rooms[k], wx, wy)}) <= 1

\* C30: a returned world with ten rooms or more, at least five of them
\* wholly inside the grid, and with a cell coded 2
C30_Witness ==
    /\ returned
    /\ Len(world.rooms) >= 10
    /\ Cardinality({k \in 1..Len(world.rooms) :
           LET r == world.rooms[k] IN
           /\ inGrid(r.x, r.y)
           /\ inGrid(r.x + r.width - 1, r.y + r.height - 1)}) >= 5
    /\ \E wy \in 0..(GridHeight - 1) : \E wx \in 0..(GridWidth - 1) :
           world.tilemap[wy][wx] = 2

====
